---- MODULE Spec2Model ----
(***************************************************************************)
(* A model of calmap (src/calmap/__init__.py): yearplot, which lays one    *)
(* calendar year of a date-indexed series out on a weekday x week grid and *)
(* decorates the axes, and calendarplot, which stacks one yearplot per     *)
(* year of the series, optionally beside a colour-scale legend.            *)
(***************************************************************************)
EXTENDS Integers, Naturals, Sequences, FiniteSets, TLC

\* ------------------------------------------------------------------ bounds
\* The years a single-year plot is asked for: FirstYear .. FirstYear+NumYears-1.
FirstYear == 2000
NumYears == 28
\* The largest number of entries of an input series drawn at Init.
MaxEntries == 3
\* The largest value an entry of an input series holds (values are 0..MaxValue).
MaxValue == 2
\* The largest number of years of one figure drawn from AlignPool at Init.
MaxPlotYears == 2

Years == FirstYear..(FirstYear + NumYears - 1)
Values == 0..MaxValue

\* ------------------------------------------------------- program constants
JanWeekAbove == 50
DecWeekBelow == 10

\* --------------------------------------------------------- small utilities
Max(S) == CHOOSE x \in S : \A y \in S : y <= x
Min(S) == CHOOSE x \in S : \A y \in S : x <= y
Range(f) == {f[x] : x \in DOMAIN f}
\* A function as the explicit table of its values (each value computed once).
Table(f) == f @@ <<>>

RECURSIVE SumSeq(_)
SumSeq(s) == IF s = <<>> THEN 0 ELSE Head(s) + SumSeq(Tail(s))

\* ------------------------------------------------ calendar (datetime) part
\* A date is <<year, month, day>>; a timestamp is [date, tod] where tod = 0
\* is midnight and tod > 0 a later time of the same day.
IsLeap(y) == y % 4 = 0 /\ (y % 100 # 0 \/ y % 400 = 0)

DaysInMonth(y, m) ==
    IF m = 2 THEN (IF IsLeap(y) THEN 29 ELSE 28)
    ELSE IF m \in {4, 6, 9, 11} THEN 30 ELSE 31

DaysBeforeYear(y) ==
    LET p == y - 1 IN p * 365 + p \div 4 - p \div 100 + p \div 400

DaysBeforeMonth(y, m) ==
    <<0, 31, 59, 90, 120, 151, 181, 212, 243, 273, 304, 334>>[m]
        + (IF m > 2 /\ IsLeap(y) THEN 1 ELSE 0)

\* date.toordinal()
Ymd2Ord(date) == DaysBeforeYear(date[1]) + DaysBeforeMonth(date[1], date[2]) + date[3]

\* date.weekday() and index.dayofweek: Monday = 0 .. Sunday = 6
Weekday(date) == (Ymd2Ord(date) + 6) % 7

\* int(date.strftime("%j"))
DayOfYear(date) == DaysBeforeMonth(date[1], date[2]) + date[3]

\* The ordinal of the Monday that starts ISO week 1 of year y.
Isoweek1Monday(y) ==
    LET firstday == Ymd2Ord(<<y, 1, 1>>)
        firstweekday == (firstday + 6) % 7
        week1monday == firstday - firstweekday
    IN IF firstweekday > 3 THEN week1monday + 7 ELSE week1monday

\* index.isocalendar().week
IsoWeek(date) ==
    LET y == date[1]
        today == Ymd2Ord(date)
        w1 == Isoweek1Monday(y)
    IN IF today < w1
       THEN (today - Isoweek1Monday(y - 1)) \div 7 + 1
       ELSE IF (today - w1) \div 7 >= 52 /\ today >= Isoweek1Monday(y + 1)
            THEN 1
            ELSE (today - w1) \div 7 + 1

\* pd.date_range(start=str(year), end=str(year + 1), freq="D")[:-1]
DateRange(year) ==
    {<<year, md[1], md[2]>> :
        md \in {x \in (1..12) \X (1..31) : x[2] <= DaysInMonth(year, x[1])}}

\* first + relativedelta(months=1, days=-1) for first = the 1st of a month
LastOfMonth(year, month) == <<year, month, DaysInMonth(year, month)>>

\* ------------------------------------------------------------ pandas part
\* A Series is a function from its index labels (timestamps) to the values
\* stored under that label, in order: one value per label unless the index
\* holds the label more than once.  NaN and None are the empty tuple and a
\* number v is <<v>>, so that a cell or an optional argument is one or the
\* other.
NaN == <<>>
None == <<>>
Some(v) == <<v>>

Timestamp(date, tod) == [date |-> date, tod |-> tod]

SeriesValues(items) == UNION {Range(items[ts]) : ts \in DOMAIN items}
\* len(series): the number of stored values.
SeriesLen(items) ==
    LET RECURSIVE Count(_)
        Count(S) == IF S = {} THEN 0
                    ELSE LET ts == CHOOSE t \in S : TRUE
                         IN Len(items[ts]) + Count(S \ {ts})
    IN Count(DOMAIN items)

\* The reduction `how` of the values of one group.
Agg(how, vals) ==
    CASE how = "sum" -> SumSeq(vals)
      [] how = "max" -> Max(Range(vals))
      [] how = "count" -> Len(vals)

\* Series.squeeze(): a Series of a single element becomes a scalar.
Squeeze(items) ==
    IF SeriesLen(items) = 1
    THEN [kind |-> "scalar", value |-> items[CHOOSE ts \in DOMAIN items : TRUE][1],
          items |-> <<>>]
    ELSE [kind |-> "series", value |-> 0, items |-> items]

\* data.groupby(level=0).agg(how).squeeze(): one group per index label.
GroupbyAgg(items, how) ==
    Squeeze([ts \in DOMAIN items |-> <<Agg(how, items[ts])>>])

\* Lines 148-156 / 428-434: by_day from data and how.
Resample(data, how) ==
    IF how = "None" THEN data
    ELSE IF data.kind = "scalar" THEN data
    ELSE GroupbyAgg(data.items, how)

\* by_day.min() and by_day.max(): NaN for an empty Series.
SeriesMin(s) ==
    IF s.kind = "scalar" THEN Some(s.value)
    ELSE IF SeriesValues(s.items) = {} THEN NaN
    ELSE Some(Min(SeriesValues(s.items)))

SeriesMax(s) ==
    IF s.kind = "scalar" THEN Some(s.value)
    ELSE IF SeriesValues(s.items) = {} THEN NaN
    ELSE Some(Max(SeriesValues(s.items)))

\* by_day[str(year)]: the entries of one calendar year.
FilterYear(items, year) ==
    [ts \in {t \in DOMAIN items : t.date[1] = year} |-> items[ts]]

\* The index holds some label more than once (reindex then raises).
HasDuplicateLabels(items) == \E ts \in DOMAIN items : Len(items[ts]) > 1

\* by_day.reindex(date_range): the value stored under the day's own label
\* (the day at midnight), NaN where the index has no such label.
Reindex(items, year) ==
    Table([date \in DateRange(year) |->
        IF Timestamp(date, 0) \in DOMAIN items
        THEN Some(items[Timestamp(date, 0)][1])
        ELSE NaN])

\* Lines 187-194: the frame's day and week columns.
DayColumn(year) == Table([date \in DateRange(year) |-> Weekday(date)])
IsoWeekColumn(year) == Table([date \in DateRange(year) |-> IsoWeek(date)])

\* A faulty yearplot: the January fix-up is left out.
FixJanuarySkipped(week) == week

\* Line 199: January days of the previous year's last week go to week 0.
FixJanuary(week) ==
    Table([date \in DOMAIN week |->
        IF date[2] = 1 /\ week[date] > JanWeekAbove THEN 0 ELSE week[date]])

\* A faulty yearplot: the December fix-up is left out.
FixDecemberSkipped(week) == week

\* Lines 200-202: December days of the next year's first week go to the
\* week after the largest one.
FixDecember(week) ==
    LET next == Max(Range(week)) + 1
    IN Table([date \in DOMAIN week |->
        IF date[2] = 12 /\ week[date] < DecWeekBelow THEN next ELSE week[date]])

WeekColumn(year) == FixDecember(FixJanuary(IsoWeekColumn(year)))

\* DataFrame.pivot(index="day", columns="week", ...): the frame row behind
\* each cell.  Rows are the sorted day values, reversed by .values[::-1];
\* columns the sorted week values; a cell no row of the frame maps to holds
\* <<>>; a (day, week) pair held by two rows of the frame is an error.
PivotIndexer(day, week) ==
    LET dates == DOMAIN week
        weekvals == Range(week)
        dayvals == Range(day)
        ncols == Cardinality(weekvals)
        nrows == Cardinality(dayvals)
        byWeek == Table([w \in weekvals |-> {d \in dates : week[d] = w}])
        colOf == Table([w \in weekvals |-> Cardinality({x \in weekvals : x < w})])
        rowOf == Table([v \in dayvals |-> Cardinality({x \in dayvals : x < v})])
        weekAt == Table([c \in 0..(ncols - 1) |-> CHOOSE w \in weekvals : colOf[w] = c])
        dayAt == Table([r \in 0..(nrows - 1) |->
                    CHOOSE v \in dayvals : rowOf[v] = nrows - 1 - r])
        dup == \E w \in weekvals : \E d1, d2 \in byWeek[w] :
                    d1 # d2 /\ day[d1] = day[d2]
    IN IF dup
       THEN [ok |-> FALSE, nrows |-> 0, ncols |-> 0, row |-> <<>>]
       ELSE [ok |-> TRUE, nrows |-> nrows, ncols |-> ncols,
             row |-> Table([rc \in (0..(nrows - 1)) \X (0..(ncols - 1)) |->
                LET S == {d \in byWeek[weekAt[rc[2]]] : day[d] = dayAt[rc[1]]}
                IN IF S = {} THEN <<>> ELSE <<CHOOSE d \in S : TRUE>>])]

\* Lines 187-202: the day and week columns of the frame of one year, which
\* depend on the year alone, and the pivot's indexer over them.
YearFrame(year) ==
    LET day == DayColumn(year)
        week == WeekColumn(year)
    IN [day |-> day, week |-> week, pivot |-> PivotIndexer(day, week)]

\* The frames of the years of the range, computed once.
YearFrames == Table([year \in Years |-> YearFrame(year)])

FrameOf(year) == IF year \in Years THEN YearFrames[year] ELSE YearFrame(year)

\* by_day.pivot(index="day", columns="week", values=...).values[::-1]
Pivot(indexer, values) ==
    Table([rc \in DOMAIN indexer.row |->
        IF indexer.row[rc] = <<>> THEN NaN ELSE values[indexer.row[rc][1]]])

\* np.ma.masked_where(np.isnan(a), a): the mask of an array.
MaskedWhereNaN(cells) == Table([rc \in DOMAIN cells |-> cells[rc] = NaN])

\* A Series object and a scalar, as by_day may be either after squeeze().
Series(items) == [kind |-> "series", value |-> 0, items |-> items]

\* ----------------------------------------------------------- yearplot
\* Lines 232-238 (and 241-246): the indices a tick argument selects among n
\* labels.  ticks is [kind |-> "bool", b], [kind |-> "int", n] or
\* [kind |-> "list", l]; the result is the list of indices.
RangeSlice(n, from, step) ==
    [i \in 1..((n - from + step - 1) \div step) |-> from + (i - 1) * step]

TickIndices(ticks, n) ==
    CASE ticks.kind = "bool" /\ ticks.b -> [i \in 1..n |-> i - 1]
      [] ticks.kind = "bool" /\ ~ticks.b -> <<>>
      [] ticks.kind = "int" -> RangeSlice(n, ticks.n \div 2, ticks.n)
      [] ticks.kind = "list" -> ticks.l

\* A faulty yearplot: the columns of the border ignore the weekday of
\* January 1.
MonthPolygonNoStart(year, month) ==
    LET first == <<year, month, 1>>
        last == LastOfMonth(year, month)
        y0 == 6 - Weekday(first)
        y1 == 6 - Weekday(last)
        x0 == (DayOfYear(first) - 1) \div 7
        x1 == (DayOfYear(last) - 1) \div 7
    IN << <<x0, y0 + 1>>, <<x0, 0>>, <<x1, 0>>, <<x1, y1>>,
          <<x1 + 1, y1>>, <<x1 + 1, 7>>, <<x0 + 1, 7>>, <<x0 + 1, y0 + 1>> >>

\* Lines 254-271: the border polygon of one month, a list of 8 vertices.
MonthPolygon(year, month) ==
    LET first == <<year, month, 1>>
        last == LastOfMonth(year, month)
        y0 == 6 - Weekday(first)
        y1 == 6 - Weekday(last)
        start == Weekday(<<year, 1, 1>>)
        x0 == (DayOfYear(first) + start - 1) \div 7
        x1 == (DayOfYear(last) + start - 1) \div 7
    IN << <<x0, y0 + 1>>, <<x0, 0>>, <<x1, 0>>, <<x1, y1>>,
          <<x1 + 1, y1>>, <<x1 + 1, 7>>, <<x0 + 1, 7>>, <<x0 + 1, y0 + 1>> >>

\* Line 273: the month's tick position x0 + (x1 - x0 + 1) / 2, kept as twice
\* its value so that it stays an integer.
MonthTick2(P) == LET x0 == P[1][1]  x1 == P[3][1] IN 2 * x0 + (x1 - x0 + 1)

\* An Axes before anything is drawn on it, and one a failed call leaves.
EmptyAxes ==
    [status |-> "new", error |-> "", year |-> 0, vmin |-> None, vmax |-> None,
     cmap |-> "", nrows |-> 0, ncols |-> 0, plot_data |-> <<>>,
     plot_mask |-> <<>>, fill_mask |-> <<>>, xlim |-> <<0, 1>>,
     monthticks |-> <<>>, xticks |-> <<>>, xticklabels |-> <<>>,
     yticks |-> <<>>, artists |-> <<>>, ylabel |-> 0]

Raised(ax, error) == [ax EXCEPT !.status = "error", !.error = error]

\* Lines 36-54: the defaults of yearplot's parameters; a call passes some
\* keywords (a record) and the others keep their defaults.
True == [kind |-> "bool", b |-> TRUE, n |-> 0, l |-> <<>>]
False == [kind |-> "bool", b |-> FALSE, n |-> 0, l |-> <<>>]
Every(n) == [kind |-> "int", b |-> FALSE, n |-> n, l |-> <<>>]
List(l) == [kind |-> "list", b |-> FALSE, n |-> 0, l |-> l]

YearplotDefaults ==
    [year |-> None, how |-> "sum", vmin |-> None, vmax |-> None,
     cmap |-> "Reds", dayticks |-> True, monthticks |-> True,
     monthly_border |-> FALSE]

Bind(defaults, passed) == passed @@ defaults

\* year = data.index.sort_values()[0].year when no year is given.
FirstYearOf(items) ==
    LET t0 == CHOOSE t \in DOMAIN items :
                \A u \in DOMAIN items :
                    Ymd2Ord(t.date) < Ymd2Ord(u.date)
                    \/ (Ymd2Ord(t.date) = Ymd2Ord(u.date) /\ t.tod <= u.tod)
    IN t0.date[1]

\* yearplot(data, year, how, vmin, vmax, cmap, monthticks, dayticks,
\* monthly_border, ax): the Axes it returns, or the one it leaves when a
\* step raises.  kw holds the keyword arguments.
yearplot(data, passed, ax) ==
    LET kw == Bind(YearplotDefaults, passed)
        year == IF kw.year = None THEN FirstYearOf(data.items) ELSE kw.year[1]
        by_day == Resample(data, kw.how)
        vmin == IF kw.vmin = None THEN SeriesMin(by_day) ELSE kw.vmin
        vmax == IF kw.vmax = None THEN SeriesMax(by_day) ELSE kw.vmax
        in_year == FilterYear(by_day.items, year)
        values == Reindex(in_year, year)
        frame == FrameOf(year)
        fill == [date \in DOMAIN frame.week |-> Some(1)]
        plot_data == Pivot(frame.pivot, values)
        fill_data == Pivot(frame.pivot, fill)
        monthticks == TickIndices(kw.monthticks, 12)
        dayticks == TickIndices(kw.dayticks, 7)
        P == [month \in 1..12 |-> MonthPolygon(year, month)]
    IN  IF by_day.kind = "scalar" THEN Raised(ax, "IndexError")
        ELSE IF HasDuplicateLabels(in_year) THEN Raised(ax, "ValueError")
        ELSE IF ~frame.pivot.ok THEN Raised(ax, "ValueError")
        ELSE IF \E t \in {kw.monthticks, kw.dayticks} : t.kind = "int" /\ t.n = 0
             THEN Raised(ax, "ValueError")
        ELSE [status |-> "drawn", error |-> "", year |-> year,
              vmin |-> vmin, vmax |-> vmax, cmap |-> kw.cmap,
              nrows |-> frame.pivot.nrows, ncols |-> frame.pivot.ncols,
              plot_data |-> plot_data,
              plot_mask |-> MaskedWhereNaN(plot_data),
              fill_mask |-> MaskedWhereNaN(fill_data),
              xlim |-> <<0, frame.pivot.ncols>>,
              monthticks |-> monthticks,
              xticks |-> [month \in 1..12 |-> MonthTick2(P[month])],
              xticklabels |-> [month \in 1..12 |-> month - 1],
              yticks |-> [i \in 1..Len(dayticks) |-> 10 * (6 - dayticks[i]) + 3],
              artists |-> IF kw.monthly_border THEN P ELSE <<>>,
              ylabel |-> ax.ylabel]

\* ------------------------------------------------------- calendarplot
\* Lines 304-320: calendarplot's own parameters and their defaults; every
\* other keyword of the call lands in **kwargs.
CalendarplotDefaults ==
    [how |-> "sum", yearlabels |-> TRUE, yearascending |-> TRUE,
     vmin |-> None, vmax |-> None, legend |-> TRUE]

Kwargs(passed) ==
    [k \in (DOMAIN passed) \ (DOMAIN CalendarplotDefaults) |-> passed[k]]

\* kwargs.get(key, default)
KwargsGet(kwargs, key, default) ==
    IF key \in DOMAIN kwargs THEN kwargs[key] ELSE default

\* Line 389: the subplot names of the mosaic.
AlphabetLen == 51

\* np.unique(data.index.year), reversed when not yearascending (380-382).
RECURSIVE SortedSeq(_)
SortedSeq(S) == IF S = {} THEN <<>> ELSE <<Min(S)>> \o SortedSeq(S \ {Min(S)})

Reverse(s) == [i \in 1..Len(s) |-> s[Len(s) + 1 - i]]

UniqueYears(items, ascending) ==
    LET up == SortedSeq({ts.date[1] : ts \in DOMAIN items})
    IN IF ascending THEN up ELSE Reverse(up)

\* Lines 402-413: the legend's Axes: the gradient from 0 to vmax, coloured
\* by kwargs["cmap"] between vmin and vmax.
LegendAxes(kwargs, vmin, vmax) ==
    [cmap |-> kwargs.cmap, vmin |-> vmin, vmax |-> vmax,
     lo |-> Some(0), hi |-> vmax]

\* ------------------------------------------------------------------ state
VARIABLES
    data,        \* the Series the call is given
    call,        \* the keywords the caller passes (a record)
    pc,          \* "call", then calendarplot's steps, then "return" or "raised"
    error,       \* the exception a raised call ends with
    axes,        \* the Axes of the figure, in subplot order
    legend_ax,   \* the legend's Axes (<<>> without one), wrapped in a tuple
    by_day,      \* calendarplot's by_day, wrapped in a tuple
    years,       \* calendarplot's years, in plotting order
    max_weeks    \* calendarplot's max_weeks

vars == <<data, call, pc, error, axes, legend_ax, by_day, years, max_weeks>>

Fresh ==
    /\ pc = "call"
    /\ error = ""
    /\ axes = <<>>
    /\ legend_ax = <<>>
    /\ by_day = <<>>
    /\ years = <<>>
    /\ max_weeks = 0

\* ----------------------------------------------------------- the yearplot call
\* yearplot(data, **call) on a fresh Axes.
Yearplot ==
    /\ pc = "call"
    /\ LET ax == yearplot(data, call, EmptyAxes)
       IN /\ axes' = <<ax>>
          /\ pc' = IF ax.status = "drawn" THEN "return" ELSE "raised"
          /\ error' = ax.error
    /\ UNCHANGED <<data, call, legend_ax, by_day, years, max_weeks>>

NextYearplot == Yearplot

\* ------------------------------------------------------- the calendarplot call
\* Lines 375-424: the years, the colour bounds of the legend, the figure's
\* Axes and, when asked for, the legend.
CalFigure ==
    /\ pc = "call"
    /\ LET kw == Bind(CalendarplotDefaults, call)
           kwargs == Kwargs(call)
           yrs == UniqueYears(data.items, kw.yearascending)
           nrows == Len(yrs)
           vmin == KwargsGet(kwargs, "vmin", SeriesMin(data))
           vmax == KwargsGet(kwargs, "vmax", SeriesMax(data))
           fresh == [i \in 1..nrows |-> EmptyAxes]
       IN /\ years' = yrs
          /\ IF ~kw.legend
             THEN /\ axes' = fresh
                  /\ legend_ax' = <<>>
                  /\ pc' = "figure"
                  /\ error' = ""
             ELSE IF nrows > AlphabetLen
             THEN /\ axes' = <<>>
                  /\ legend_ax' = <<>>
                  /\ pc' = "raised"
                  /\ error' = "IndexError"
             ELSE IF "cmap" \notin DOMAIN kwargs
             THEN /\ axes' = fresh
                  /\ legend_ax' = <<>>
                  /\ pc' = "raised"
                  /\ error' = "KeyError"
             ELSE /\ axes' = fresh
                  /\ legend_ax' = <<LegendAxes(kwargs, vmin, vmax)>>
                  \* np.arange(0, vmax, vmax/legend_nticks) has no length
                  \* for vmax = 0
                  /\ pc' = IF vmax = Some(0) THEN "raised" ELSE "figure"
                  /\ error' = IF vmax = Some(0) THEN "ValueError" ELSE ""
    /\ UNCHANGED <<data, call, by_day, max_weeks>>

\* Lines 426-444: resample by day once.
CalResample ==
    /\ pc = "figure"
    /\ by_day' = <<Resample(data, Bind(CalendarplotDefaults, call).how)>>
    /\ max_weeks' = 0
    /\ pc' = "loop"
    /\ UNCHANGED <<data, call, error, axes, legend_ax, years>>

Undrawn == {i \in 1..Len(axes) : axes[i].status = "new"}

\* Lines 446-451: one round of the loop over zip(years, axes).
CalYear ==
    /\ pc = "loop"
    /\ Undrawn # {}
    /\ LET i == Min(Undrawn)
           kw == Bind(CalendarplotDefaults, call)
           passed == [year |-> Some(years[i]), how |-> "None"] @@ Kwargs(call)
           ax == yearplot(by_day[1], passed, axes[i])
       IN IF ax.status = "drawn"
          THEN /\ axes' = [axes EXCEPT ![i] =
                    [ax EXCEPT !.ylabel = IF kw.yearlabels THEN years[i] ELSE 0]]
               /\ max_weeks' = IF ax.xlim[2] > max_weeks THEN ax.xlim[2] ELSE max_weeks
               /\ UNCHANGED <<pc, error>>
          ELSE /\ axes' = [axes EXCEPT ![i] = ax]
               /\ pc' = "raised"
               /\ error' = ax.error
               /\ UNCHANGED max_weeks
    /\ UNCHANGED <<data, call, legend_ax, by_day, years>>

\* A faulty calendarplot: the widths are left as each yearplot set them.
CalAlignSkipped ==
    /\ pc = "loop"
    /\ Undrawn = {}
    /\ pc' = "return"
    /\ UNCHANGED <<data, call, error, axes, legend_ax, by_day, years, max_weeks>>

\* Lines 453-461: every Axes gets the width of the widest year; return.
CalAlign ==
    /\ pc = "loop"
    /\ Undrawn = {}
    /\ axes' = [i \in 1..Len(axes) |-> [axes[i] EXCEPT !.xlim = <<0, max_weeks>>]]
    /\ pc' = "return"
    /\ UNCHANGED <<data, call, error, legend_ax, by_day, years, max_weeks>>

NextCalendarplot == CalFigure \/ CalResample \/ CalYear \/ CalAlign

\* ------------------------------------------------------------- the inputs
\* A series with one entry on the first and one on the last day of each year
\* of Ys.
EndsOfYears(Ys, v) ==
    Series([ts \in {Timestamp(<<y, md[1], md[2]>>, 0) :
                        y \in Ys, md \in {<<1, 1>>, <<12, 31>>}} |-> <<v>>])

\* The series of at most MaxEntries values over the index labels L.  The
\* values stored under one label are listed in nondecreasing order: no
\* operation of the program depends on the order of equal labels.
ValueLists ==
    {l \in UNION {[1..n -> Values] : n \in 1..MaxEntries} :
        \A i \in 1..(Len(l) - 1) : l[i] <= l[i + 1]}

SmallSeries(L) ==
    {Series(items) :
        items \in {f \in UNION {[K -> ValueLists] :
                        K \in {K \in SUBSET L : K # {} /\ Cardinality(K) <= MaxEntries}} :
                    SeriesLen(f) <= MaxEntries}}

Optional(present, rec) == IF present THEN rec ELSE <<>>

\* Every year of the range, with and without month borders and resampling.
InitGrid ==
    /\ Fresh
    /\ \E y \in Years, border \in BOOLEAN, how \in {"None", "sum"} :
        /\ data = EndsOfYears({y}, 1)
        /\ call = [year |-> Some(y), how |-> how, monthly_border |-> border]

SpecGrid == InitGrid /\ [][NextYearplot]_vars

\* yearplot on small series that hold midnight and later timestamps, repeated
\* labels and entries of two years.
YearLabels ==
    {Timestamp(d, tod) : d \in {<<2020, 1, 1>>, <<2020, 2, 29>>}, tod \in 0..1}
        \cup {Timestamp(<<2021, 1, 1>>, 0)}

InitYearData ==
    \E s \in SmallSeries(YearLabels), how \in {"default", "None", "max", "count"} :
        \E year \in {None} \cup {Some(ts.date[1]) : ts \in DOMAIN s.items} :
            /\ data = s
            /\ call = Optional(year # None, [year |-> year])
                        @@ Optional(how # "default", [how |-> how])

\* yearplot with each kind of tick argument.
TickArguments ==
    {True, False, Every(0), Every(1), Every(2), Every(3), Every(5),
     List(<<>>), List(<<0, 6>>), List(<<1, 3, 5>>)}

InitYearTicks ==
    \E mt \in TickArguments, dt \in {True, False, Every(2), List(<<0, 6>>)},
       givenTicks \in BOOLEAN :
        /\ data = EndsOfYears({2020}, 1)
        /\ call = [year |-> Some(2020)]
                    @@ Optional(givenTicks, [monthticks |-> mt, dayticks |-> dt])

\* The value 1 on every day of January 2020, at midnight.
January2020 ==
    Series([ts \in {Timestamp(<<2020, 1, d>>, 0) : d \in 1..31} |-> <<1>>])

InitJanuary ==
    \E how \in {"None", "sum"}, z \in Values :
        /\ data = Series([ts \in DOMAIN January2020.items |-> <<z>>])
        /\ call = [year |-> Some(2020), how |-> how]

InitYear == Fresh /\ (InitYearData \/ InitYearTicks \/ InitJanuary)

SpecYear == InitYear /\ [][NextYearplot]_vars

\* calendarplot on every single year of the range and on sets of years of
\* AlignPool, with and without a legend and a cmap.
AlignPool == {2012, 2013, 2016, 2017}

InitAlign ==
    /\ Fresh
    /\ \E Ys \in {{y} : y \in Years}
                \cup {S \in SUBSET AlignPool : Cardinality(S) \in 2..MaxPlotYears},
          asc \in BOOLEAN, legend \in BOOLEAN, cmap \in BOOLEAN,
          how \in {"None", "sum"} :
        /\ data = EndsOfYears(Ys, 1)
        /\ call = [yearascending |-> asc, legend |-> legend, how |-> how]
                    @@ Optional(cmap, [cmap |-> "YlGn"])

SpecAlign == InitAlign /\ [][NextCalendarplot]_vars

\* calendarplot on small series of two years, with each combination of
\* legend, cmap, vmin and vmax.
CalLabels ==
    {Timestamp(d, tod) : d \in {<<2012, 1, 1>>, <<2013, 1, 1>>}, tod \in 0..1}

InitCal ==
    /\ Fresh
    /\ \E s \in SmallSeries(CalLabels), how \in {"default", "None", "max"},
          legend \in BOOLEAN, cmap \in BOOLEAN, bounds \in BOOLEAN :
        /\ data = s
        /\ legend \/ ~cmap
        /\ call = Optional(how # "default", [how |-> how])
                    @@ Optional(~legend, [legend |-> FALSE])
                    @@ Optional(cmap, [cmap |-> "YlGn"])
                    @@ Optional(bounds, [vmin |-> Some(1), vmax |-> Some(MaxValue + 1)])

SpecCal == InitCal /\ [][NextCalendarplot]_vars

\* ------------------------------------------------------------------ claims
\* What the call was given, with the defaults filled in.
YearplotArgs == Bind(YearplotDefaults, call)
CalendarplotArgs == Bind(CalendarplotDefaults, call)

\* The cell <<row, column>> of the drawn grid in which a calendar shows a
\* date: Monday in the top row 6, one column per week started since the
\* Monday on or before January 1.
CellOf(date) ==
    <<6 - Weekday(date),
      (DayOfYear(date) + Weekday(<<date[1], 1, 1>>) - 1) \div 7>>

Unmasked(mask) == {rc \in DOMAIN mask : ~mask[rc]}

DaysInYear(y) == IF IsLeap(y) THEN 366 ELSE 365

\* The date that is the k-th day of year y.
DateOfDoy(y, k) ==
    LET m == CHOOSE m \in 1..12 :
                DaysBeforeMonth(y, m) < k /\ k <= DaysBeforeMonth(y, m) + DaysInMonth(y, m)
    IN <<y, m, k - DaysBeforeMonth(y, m)>>

\* The unit cells <<row, column>> a closed rectilinear polygon encloses: a
\* cell is inside when a ray from its centre to the right crosses an odd
\* number of the polygon's vertical edges.
Enclosed(P) ==
    LET n == Len(P)
        xs == {P[i][1] : i \in 1..n}
        ys == {P[i][2] : i \in 1..n}
        Crossed(r, c) ==
            {i \in 1..n :
                LET a == P[i]
                    b == P[(i % n) + 1]
                IN /\ a[1] = b[1]
                   /\ a[1] > c
                   /\ (IF a[2] < b[2] THEN a[2] ELSE b[2]) <= r
                   /\ r < (IF a[2] < b[2] THEN b[2] ELSE a[2])}
    IN {rc \in (Min(ys)..(Max(ys) - 1)) \X (Min(xs)..(Max(xs) - 1)) :
            Cardinality(Crossed(rc[1], rc[2])) % 2 = 1}

\* C1: in every year each date from Jan 1 to Dec 31 gets exactly one
\* (weekday-row, week-column) pair after the year-boundary fix-up and no two
\* dates get the same pair, so the pivot on (day, week) never meets a
\* duplicate key and the grid shows one cell per date.
C1_OneCellPerDate ==
    pc # "call" =>
        LET y == YearplotArgs.year[1]
            frame == FrameOf(y)
            dates == DateRange(y)
            pairs == {<<frame.day[d], frame.week[d]>> : d \in dates}
        IN /\ Cardinality(dates) = DaysInYear(y)
           /\ Cardinality(pairs) = Cardinality(dates)
           /\ pc = "return"
           /\ Cardinality(Unmasked(axes[1].fill_mask)) = Cardinality(dates)

\* A year whose first days belong to the last ISO week of the year before,
\* the week number its own last days carry as well, has been laid out.
C1_Witness ==
    /\ pc = "return"
    /\ LET y == YearplotArgs.year[1]
       IN /\ IsoWeek(<<y, 1, 1>>) = IsoWeek(<<y, 12, 31>>)
          /\ Weekday(<<y, 1, 1>>) = Weekday(<<y, 12, 31>>)
          /\ Cardinality(Unmasked(axes[1].fill_mask)) = 365

\* C2: a January date of ISO week > 50 gets column 0, a December date of ISO
\* week < 10 gets the largest column of the year, every other date keeps its
\* ISO week, and the columns in use are a gap-free range that never
\* decreases from one day to the next.
C2_WeekColumns ==
    pc # "call" =>
        LET y == YearplotArgs.year[1]
            week == FrameOf(y).week
            top == Max(Range(week))
            bottom == Min(Range(week))
        IN /\ \A d \in DateRange(y) :
                week[d] = IF d[2] = 1 /\ IsoWeek(d) > 50 THEN 0
                          ELSE IF d[2] = 12 /\ IsoWeek(d) < 10 THEN top
                          ELSE IsoWeek(d)
           /\ Range(week) = bottom..top
           /\ \A k \in 1..(DaysInYear(y) - 1) :
                week[DateOfDoy(y, k)] <= week[DateOfDoy(y, k + 1)]
           /\ pc = "return" => axes[1].ncols = top - bottom + 1

\* A year that needs both fix-ups (2012) has been laid out.
C2_Witness ==
    /\ pc = "return"
    /\ LET y == YearplotArgs.year[1]
           week == FrameOf(y).week
       IN /\ IsoWeek(<<y, 1, 1>>) > 50 /\ week[<<y, 1, 1>>] = 0
          /\ IsoWeek(<<y, 12, 31>>) < 10 /\ week[<<y, 12, 31>>] = 53

\* C9: the unit cells a month's border polygon encloses are exactly the grid
\* cells of the month's dates: the polygon's column
\* (dayofyear + weekday(Jan 1) - 1) div 7 and row 6 - weekday are the cell
\* the pivot gives the date, a polygon encloses as many cells as the month
\* has days, and polygons of different months enclose disjoint cells.
C9_MonthPolygons ==
    (pc = "return" /\ axes[1].artists # <<>>) =>
        LET y == YearplotArgs.year[1]
            row == FrameOf(y).pivot.row
            P == axes[1].artists
            MonthCells(M) ==
                {rc \in DOMAIN row : row[rc] # <<>> /\ row[rc][1][2] = M}
        IN /\ \A d \in DateRange(y) : CellOf(d) \in DOMAIN row /\ row[CellOf(d)] = <<d>>
           /\ \A M \in 1..12 :
                /\ Enclosed(P[M]) = MonthCells(M)
                /\ Cardinality(Enclosed(P[M])) = DaysInMonth(y, M)
           /\ \A M1, M2 \in 1..12 :
                M1 # M2 => Enclosed(P[M1]) \cap Enclosed(P[M2]) = {}
           /\ UNION {Enclosed(P[M]) : M \in 1..12} = Unmasked(axes[1].fill_mask)

\* The borders of a leap year whose February neither starts on a Monday nor
\* ends on a Sunday have been drawn.
C9_Witness ==
    /\ pc = "return"
    /\ axes[1].artists # <<>>
    /\ LET y == YearplotArgs.year[1]
       IN /\ IsLeap(y)
          /\ Weekday(<<y, 2, 1>>) # 0
          /\ Weekday(<<y, 2, 29>>) # 6
          /\ Cardinality(Enclosed(axes[1].artists[2])) = 29

\* C7: after calendarplot has rendered a non-empty set of years every
\* returned subplot spans [0, W] with W the largest column count of the
\* rendered years; a year has 54 columns exactly when it is a leap year that
\* starts on a Sunday and 53 otherwise.
C7_AlignedWidths ==
    pc = "return" =>
        LET W == Max({axes[i].ncols : i \in 1..Len(axes)})
        IN /\ Len(years) >= 1
           /\ Len(axes) = Len(years)
           /\ \A i \in 1..Len(axes) :
                /\ axes[i].status = "drawn"
                /\ axes[i].year = years[i]
                /\ axes[i].xlim = <<0, W>>
                /\ axes[i].ncols =
                    IF IsLeap(years[i]) /\ Weekday(<<years[i], 1, 1>>) = 6
                    THEN 54 ELSE 53

\* 2012 and 2013 have been rendered together: 2013 has 53 columns and both
\* subplots span 54.
C7_Witness ==
    /\ pc = "return"
    /\ {years[i] : i \in 1..Len(years)} = {2012, 2013}
    /\ \E i \in 1..Len(axes) : axes[i].year = 2013 /\ axes[i].ncols = 53
    /\ \A i \in 1..Len(axes) : axes[i].xlim = <<0, 54>>

\* The values of the entries of one calendar day, all times of day together.
RECURSIVE ConcatAll(_, _)
ConcatAll(items, S) ==
    IF S = {} THEN <<>>
    ELSE LET ts == CHOOSE t \in S : \A u \in S : t.tod <= u.tod
         IN items[ts] \o ConcatAll(items, S \ {ts})

ValuesOn(items, date) == ConcatAll(items, {ts \in DOMAIN items : ts.date = date})

\* C3: with an aggregation method, the cell of every day D of the target year
\* holds the reduction of all entries whose timestamp falls on D, whatever
\* their time of day, and is masked only where the series has no entry on D.
C3_ReducedByCalendarDay ==
    (pc = "return" /\ YearplotArgs.how # "None") =>
        \A d \in DateRange(axes[1].year) :
            axes[1].plot_data[CellOf(d)] =
                IF ValuesOn(data.items, d) = <<>> THEN NaN
                ELSE Some(Agg(YearplotArgs.how, ValuesOn(data.items, d)))

OneEntryPerDay(items) ==
    /\ \A ts \in DOMAIN items : Len(items[ts]) = 1
    /\ \A t, u \in DOMAIN items : t # u => t.date # u.date

\* C4: for a series with at most one entry per day the presence grid has one
\* unmasked cell per date of the year (365, or 366 in a leap year) and the
\* data cell of a date is unmasked exactly when the series has an entry on
\* that date, a 0 included; the value 1 on every day of January 2020 gives
\* 31 unmasked data cells, in the columns of ISO weeks 1 to 5.
C4_MaskedUnlessSupplied ==
    (pc = "return" /\ OneEntryPerDay(data.items)) =>
        LET y == axes[1].year
        IN /\ Cardinality(Unmasked(axes[1].fill_mask)) = DaysInYear(y)
           /\ \A d \in DateRange(y) :
                ~axes[1].plot_mask[CellOf(d)] <=> ValuesOn(data.items, d) # <<>>
           /\ data = January2020 =>
                /\ Cardinality(Unmasked(axes[1].plot_mask)) = 31
                /\ \A rc \in Unmasked(axes[1].plot_mask) : rc[2] \in 0..4

\* C6: the months that get an x tick are those monthticks selects, so the
\* number of x ticks (and of their labels) is the size of the selection.
C6_TicksFollowMonthticks ==
    pc = "return" =>
        /\ Len(axes[1].xticks) = Len(axes[1].monthticks)
        /\ axes[1].xticklabels = axes[1].monthticks

\* C5: a vmin or vmax given to calendarplot is the bound of every year's
\* data mesh; a bound left as None is the min or max of the resampled data.
C5_GivenBoundsUsed ==
    pc = "return" =>
        \A i \in 1..Len(axes) :
            /\ axes[i].vmin = IF CalendarplotArgs.vmin # None
                              THEN CalendarplotArgs.vmin ELSE SeriesMin(by_day[1])
            /\ axes[i].vmax = IF CalendarplotArgs.vmax # None
                              THEN CalendarplotArgs.vmax ELSE SeriesMax(by_day[1])

\* C10: with a legend, the bounds that colour the legend are the bounds that
\* colour the mesh of every year, whatever the series and the aggregation
\* (stated here for the calls that pass no vmin and no vmax).
C10_LegendBoundsAreMeshBounds ==
    (/\ pc = "return"
     /\ legend_ax # <<>>
     /\ {"vmin", "vmax"} \cap DOMAIN call = {}) =>
        \A i \in 1..Len(axes) :
            /\ axes[i].vmin = legend_ax[1].vmin
            /\ axes[i].vmax = legend_ax[1].vmax

\* C8: without a cmap keyword, calendarplot with a legend raises at the
\* legend (no year drawn, nothing returned) and calendarplot without a
\* legend completes with one Axes per distinct year.  Calls that pass
\* how=None for a series with repeated labels are left out: they break the
\* documented condition of how=None.
C8_LegendNeedsCmap ==
    (/\ pc # "call"
     /\ "cmap" \notin DOMAIN call
     /\ ~(CalendarplotArgs.how = "None" /\ HasDuplicateLabels(data.items))) =>
        IF CalendarplotArgs.legend
        THEN /\ pc = "raised"
             /\ error = "KeyError"
             /\ \A i \in 1..Len(axes) : axes[i].status = "new"
        ELSE /\ pc # "raised"
             /\ pc = "return" =>
                    /\ Len(axes) = Cardinality({ts.date[1] : ts \in DOMAIN data.items})
                    /\ \A i \in 1..Len(axes) : axes[i].status = "drawn"

====
